---- MODULE Spec2Model ----
(***************************************************************************)
(* react-injectable: InjectSingle / InjectSingleGuarded / Inject /         *)
(* InjectGuarded (src/src/index.tsx), modelled together with the part of   *)
(* the React 16 host renderer they are written against: context            *)
(* providers and consumers, forwardRef, element instantiation with a ref,  *)
(* and the test renderer's create / update / unmount.                      *)
(*                                                                         *)
(* A component is a record [wrappers, target]: wrappers is the sequence of *)
(* injector layers, outermost first, around the class component target.    *)
(* A property record is a function from a set of property names to values. *)
(***************************************************************************)
EXTENDS Integers, Sequences, FiniteSets, TLC

\* ------------------------------------------------------------------ bounds
MaxProviders == 2
MaxInstances == 2

\* ------------------------------------------------------------------ values
Undefined == "undefined"
Null == 0

Contexts == {"FooContext", "BarContext"}

\* createContext("foo") and createContext(undefined)
DefaultValue == [FooContext |-> "foo", BarContext |-> Undefined]

\* values a Provider publishes in the tests (undefined, and two strings)
ProviderValues == {Undefined, "foo1", "foo2"}

\* null, '', 0 and false: the values other than undefined that JavaScript
\* treats as false
FalsyValues == {"null", "", "0", "false"}

\* what React renders no text for: undefined, null and booleans
RendersNothing == {Undefined, "null", "false"}

\* foo and bar are the injected properties, baz a property of the caller
PropNames == {"foo", "bar", "baz"}
PropOrder == <<"foo", "bar", "baz">>

\* the value a caller writes in JSX (baz="baz")
CallerValues == {"baz"}

\* the names a caller may write: its own property baz, and (in untyped code)
\* the injected property foo
CallerNames == {"foo", "baz"}

PropertyRecords == UNION {[D -> CallerValues] : D \in SUBSET CallerNames}

EmptyRecord == [k \in {} |-> Undefined]

NoRef == [shape |-> "none", id |-> 0]

\* createRef() cell, callback ref, a plain object without "current",
\* a string ref, and no ref at all
RefShapes == {"none", "cell", "callback", "object", "string"}

SuppliedRef(shape) == IF shape = "none" THEN NoRef ELSE [shape |-> shape, id |-> 1]

\* ------------------------------------------------------------ objectAssign
\* Object.assign(target, source): own keys of source overlay those of target
objectAssign(t, s) ==
  [k \in (DOMAIN t) \cup (DOMAIN s) |-> IF k \in DOMAIN s THEN s[k] ELSE t[k]]

\* { [PropName]: value }
Single(PropName, value) == [k \in {PropName} |-> value]

\* --------------------------------------------------------- context reading
\* variant: the default of the context is read, whatever is published
ContextValue_Default(Context, providers) == DefaultValue[Context]

\* <Context.Consumer>: the value of the nearest enclosing Provider of the
\* context (the last one of the outermost-first provider stack), or the
\* default given to createContext when there is none.
RECURSIVE ContextValue(_, _)
ContextValue(Context, providers) ==
  IF providers = <<>> THEN DefaultValue[Context]
  ELSE LET last == providers[Len(providers)]
       IN IF last.Context = Context THEN last.value
          ELSE ContextValue(Context, SubSeq(providers, 1, Len(providers) - 1))

\* ---------------------------------------------------------- the injectors
TargetComponent == [wrappers |-> <<>>, target |-> "Component"]

InjectSingle(Context, PropName, Component) ==
  [Component EXCEPT !.wrappers =
     <<[Context |-> Context, PropName |-> PropName, guarded |-> FALSE]>> \o @]

InjectSingleGuarded(Context, PropName, Component) ==
  [Component EXCEPT !.wrappers =
     <<[Context |-> Context, PropName |-> PropName, guarded |-> TRUE]>> \o @]

\* variant: the consumer callback renders the wrapped component with the
\* caller's record only
InjectSingleRender_NoMerge(PropName, Component, props, ref, value) ==
  [node |-> "element", type |-> Component, props |-> props, ref |-> ref]

\* variant: the consumer callback wraps the component in a component it
\* defines on the spot
InjectSingleRender_InlineType(PropName, Component, props, ref, value) ==
  [node |-> "element", type |-> [Component EXCEPT !.target = "inline"],
   props |-> objectAssign(Single(PropName, value), props), ref |-> ref]

\* variant: the wrapper does not hand its ref to the wrapped component
InjectSingleRender_DropRef(PropName, Component, props, ref, value) ==
  [node |-> "element", type |-> Component,
   props |-> objectAssign(Single(PropName, value), props), ref |-> NoRef]

\* the forwardRef render function of InjectSingle with its consumer callback:
\* the element it returns for the wrapped component
InjectSingleRender(PropName, Component, props, ref, value) ==
  [node |-> "element", type |-> Component,
   props |-> objectAssign(Single(PropName, value), props), ref |-> ref]

\* variant: the element's type is a component made anew on each pass
InjectSingleGuardedRender_InlineType(PropName, Component, props, ref, value) ==
  IF value = Undefined
  THEN [node |-> "null", type |-> Component, props |-> EmptyRecord, ref |-> NoRef]
  ELSE [node |-> "element", type |-> [Component EXCEPT !.target = "inline"],
        props |-> objectAssign(Single(PropName, value), props), ref |-> ref]

\* variant: the test is "if (!value)"
InjectSingleGuardedRender_Falsy(PropName, Component, props, ref, value) ==
  IF value \in FalsyValues \cup {Undefined}
  THEN [node |-> "null", type |-> Component, props |-> EmptyRecord, ref |-> NoRef]
  ELSE [node |-> "element", type |-> Component,
        props |-> objectAssign(Single(PropName, value), props), ref |-> ref]

\* variant: no test of the value
InjectSingleGuardedRender_NoGuard(PropName, Component, props, ref, value) ==
  [node |-> "element", type |-> Component,
   props |-> objectAssign(Single(PropName, value), props), ref |-> ref]

\* variant: the guarded wrapper does not hand its ref to the wrapped component
InjectSingleGuardedRender_DropRef(PropName, Component, props, ref, value) ==
  IF value = Undefined
  THEN [node |-> "null", type |-> Component, props |-> EmptyRecord, ref |-> NoRef]
  ELSE [node |-> "element", type |-> Component,
        props |-> objectAssign(Single(PropName, value), props), ref |-> NoRef]

\* the same for InjectSingleGuarded: null when the value is undefined
InjectSingleGuardedRender(PropName, Component, props, ref, value) ==
  IF value = Undefined
  THEN [node |-> "null", type |-> Component, props |-> EmptyRecord, ref |-> NoRef]
  ELSE [node |-> "element", type |-> Component,
        props |-> objectAssign(Single(PropName, value), props), ref |-> ref]

\* variant: the loop returns after its first iteration
Inject_FirstOnly(ContextMap, WrappedComponent) ==
  IF ContextMap = <<>> THEN WrappedComponent
  ELSE InjectSingle(Head(ContextMap).Context, Head(ContextMap).key, WrappedComponent)

\* variant: the result is wrapped once more than the map has entries
RECURSIVE Inject_ExtraLayer(_, _)
Inject_ExtraLayer(ContextMap, WrappedComponent) ==
  IF ContextMap = <<>> THEN InjectSingle("FooContext", "foo", WrappedComponent)
  ELSE Inject_ExtraLayer(Tail(ContextMap),
              InjectSingle(Head(ContextMap).Context, Head(ContextMap).key, WrappedComponent))

\* a ContextMap is the sequence of its entries in for-in enumeration order
RECURSIVE Inject(_, _)
Inject(ContextMap, WrappedComponent) ==
  IF ContextMap = <<>> THEN WrappedComponent
  ELSE Inject(Tail(ContextMap),
              InjectSingle(Head(ContextMap).Context, Head(ContextMap).key, WrappedComponent))

\* variant: the fold uses the unguarded injector
RECURSIVE InjectGuarded_Unguarded(_, _)
InjectGuarded_Unguarded(ContextMap, WrappedComponent) ==
  IF ContextMap = <<>> THEN WrappedComponent
  ELSE InjectGuarded_Unguarded(Tail(ContextMap),
              InjectSingle(Head(ContextMap).Context, Head(ContextMap).key, WrappedComponent))

\* variant: only the first entry of the map is guarded
RECURSIVE InjectGuarded_FirstGuarded(_, _)
InjectGuarded_FirstGuarded(ContextMap, WrappedComponent) ==
  IF ContextMap = <<>> THEN WrappedComponent
  ELSE InjectGuarded_Unguarded(Tail(ContextMap),
              InjectSingleGuarded(Head(ContextMap).Context, Head(ContextMap).key, WrappedComponent))

RECURSIVE InjectGuarded(_, _)
InjectGuarded(ContextMap, WrappedComponent) ==
  IF ContextMap = <<>> THEN WrappedComponent
  ELSE InjectGuarded(Tail(ContextMap),
              InjectSingleGuarded(Head(ContextMap).Context, Head(ContextMap).key, WrappedComponent))

\* ------------------------------------------------------- the host renderer
\* Rendering <Component ref={ref} {...props}/> below the provider stack:
\* every forwardRef wrapper is called with (props, ref), its consumer with
\* the context value, until null or the element of the target is reached.
\* layers counts the wrappers whose consumer callback ran; type is the
\* component type of the element that is instantiated.
RECURSIVE RenderElement(_, _, _, _)
RenderElement(Component, props, ref, providers) ==
  IF Component.wrappers = <<>>
  THEN [node |-> "instance", type |-> Component, props |-> props, ref |-> ref,
        layers |-> 0]
  ELSE LET w == Head(Component.wrappers)
           inner == [Component EXCEPT !.wrappers = Tail(@)]
           value == ContextValue(w.Context, providers)
           el == IF w.guarded
                 THEN InjectSingleGuardedRender(w.PropName, inner, props, ref, value)
                 ELSE InjectSingleRender(w.PropName, inner, props, ref, value)
       IN IF el.node = "null"
          THEN [node |-> "null", type |-> TargetComponent, props |-> EmptyRecord,
                ref |-> NoRef, layers |-> 1]
          ELSE LET r == RenderElement(el.type, el.props, el.ref, providers)
               IN [r EXCEPT !.layers = @ + 1]

\* render() of the test components: <>{foo}{bar}{baz}</>; a property that is
\* missing, undefined, null or a boolean renders no text
RECURSIVE ComponentRender(_, _)
ComponentRender(props, i) ==
  IF i > Len(PropOrder) THEN <<>>
  ELSE LET k == PropOrder[i]
       IN (IF k \in DOMAIN props /\ props[k] \notin RendersNothing THEN <<props[k]>> ELSE <<>>)
          \o ComponentRender(props, i + 1)

EmptyOutput == [node |-> "null", text |-> <<>>]

\* what renderer.toJSON() shows for a render result
OutputOf(r) ==
  IF r.node = "null" THEN EmptyOutput
  ELSE [node |-> "instance", text |-> ComponentRender(r.props, 1)]

\* instantiating the target directly with a record
DirectOutput(props) == [node |-> "instance", text |-> ComponentRender(props, 1)]

\* ------------------------------------------------------------------- state
VARIABLES
  call,       \* the injector call that built the component under test
  comp,       \* the exported component under test (the result of call)
  root,       \* the test renderer's root: "none" before create, "mounted",
              \* "unmounted" after unmount, "thrown" after a render pass threw
  providers,  \* the Provider stack above comp, outermost first
  props,      \* the caller's property record
  ref,        \* the ref the caller supplies
  instance,   \* the mounted instance of the target class, or Null
  created,    \* number of target instances constructed so far
  refCell,    \* "current" of the supplied ref object
  refCalls,   \* arguments the supplied callback ref was called with
  output,     \* what the root shows
  instProps,  \* this.props of the mounted instance
  elemRef,    \* the ref carried by the element of the mounted instance
  layers,     \* number of injector layers rendered by the last pass
  rerendered  \* the last step re-rendered with the same record and values

vars == <<call, comp, root, providers, props, ref, instance, created, refCell,
          refCalls, output, instProps, elemRef, layers, rerendered>>

ContextMaps ==
  { <<>>,
    <<[key |-> "foo", Context |-> "FooContext"], [key |-> "bar", Context |-> "BarContext"]>>,
    <<[key |-> "bar", Context |-> "BarContext"], [key |-> "foo", Context |-> "FooContext"]>>,
    <<[key |-> "foo", Context |-> "FooContext"], [key |-> "bar", Context |-> "FooContext"]>> }

\* the injector calls of the tests and the README; the map of a call of
\* InjectSingle or InjectSingleGuarded lists its (Context, PropName) arguments,
\* outermost call first
Calls ==
  [fn : {"Inject", "InjectGuarded"}, map : ContextMaps]
    \cup [fn : {"InjectSingle", "InjectSingleGuarded"},
          map : {<<[key |-> "foo", Context |-> "FooContext"]>>,
                 <<[key |-> "bar", Context |-> "BarContext"]>>}]
    \cup {[fn |-> "InjectSingle",
           map |-> <<[key |-> "foo", Context |-> "FooContext"],
                     [key |-> "bar", Context |-> "BarContext"]>>]}

\* InjectSingle(c1, k1, InjectSingle(c2, k2, ... Component))
RECURSIVE NestedSingle(_, _, _)
NestedSingle(guarded, args, Component) ==
  IF args = <<>> THEN Component
  ELSE LET inner == NestedSingle(guarded, Tail(args), Component)
       IN IF guarded THEN InjectSingleGuarded(Head(args).Context, Head(args).key, inner)
          ELSE InjectSingle(Head(args).Context, Head(args).key, inner)

Build(c) ==
  CASE c.fn = "Inject" -> Inject(c.map, TargetComponent)
    [] c.fn = "InjectGuarded" -> InjectGuarded(c.map, TargetComponent)
    [] c.fn = "InjectSingle" -> NestedSingle(FALSE, c.map, TargetComponent)
    [] c.fn = "InjectSingleGuarded" -> NestedSingle(TRUE, c.map, TargetComponent)

ProviderStacks ==
  UNION {[1..n -> [Context : Contexts, value : ProviderValues]] : n \in 0..MaxProviders}

\* commitAttachRef / commitDetachRef: a ref object gets current := v, a
\* callback ref is called with v
CellAfter(cell, r, supplied, v) ==
  IF r = supplied /\ r.shape \in {"cell", "object"} THEN v ELSE cell

CallsAfter(calls, r, supplied, v) ==
  IF r = supplied /\ r.shape = "callback" THEN Append(calls, v) ELSE calls

\* A component type defined inside a render function is another type in
\* every render pass; the types the injectors close over stay the same.
NewTypeEachPass(type) == type.target = "inline"

\* The commit of a render result r over the previous tree (oldInst with the
\* ref oldRef on its element): an instance is kept when the element at its
\* place has the type it had, and replaced by a new one otherwise.
Commit(r, oldInst, oldRef, cell, calls, supplied) ==
  LET detCell  == IF oldInst # Null THEN CellAfter(cell, oldRef, supplied, Null) ELSE cell
      detCalls == IF oldInst # Null THEN CallsAfter(calls, oldRef, supplied, Null) ELSE calls
  IN
  IF r.node = "instance" /\ r.ref.shape = "string"
  THEN \* a string ref on an element created outside a class render: the
       \* reconciler throws and the root is torn down
       /\ root' = "thrown"
       /\ instance' = Null
       /\ created' = created
       /\ refCell' = detCell
       /\ refCalls' = detCalls
       /\ output' = EmptyOutput
       /\ instProps' = EmptyRecord
       /\ elemRef' = NoRef
       /\ layers' = r.layers
  ELSE IF r.node = "instance"
  THEN /\ root' = "mounted"
       /\ output' = OutputOf(r)
       /\ instProps' = r.props
       /\ elemRef' = r.ref
       /\ layers' = r.layers
       /\ IF oldInst = Null \/ NewTypeEachPass(r.type)
          THEN /\ created < MaxInstances
               /\ created' = created + 1
               /\ instance' = created + 1
               /\ refCell' = CellAfter(detCell, r.ref, supplied, created + 1)
               /\ refCalls' = CallsAfter(detCalls, r.ref, supplied, created + 1)
          ELSE /\ created' = created
               /\ instance' = oldInst
               /\ IF r.ref = oldRef
                  THEN refCell' = cell /\ refCalls' = calls
                  ELSE /\ refCell' = CellAfter(detCell, r.ref, supplied, oldInst)
                       /\ refCalls' = CallsAfter(detCalls, r.ref, supplied, oldInst)
  ELSE /\ root' = "mounted"
       /\ output' = EmptyOutput
       /\ instProps' = EmptyRecord
       /\ elemRef' = NoRef
       /\ layers' = r.layers
       /\ instance' = Null
       /\ created' = created
       /\ refCell' = detCell
       /\ refCalls' = detCalls

Init ==
  /\ call \in Calls
  /\ comp = Build(call)
  /\ root = "none"
  /\ providers = <<>>
  /\ props = EmptyRecord
  /\ ref = NoRef
  /\ instance = Null
  /\ created = 0
  /\ refCell = Null
  /\ refCalls = <<>>
  /\ output = EmptyOutput
  /\ instProps = EmptyRecord
  /\ elemRef = NoRef
  /\ layers = 0
  /\ rerendered = FALSE

\* TestRenderer.create(<Provider...><Component ref={ref} {...R}/></Provider...>)
Create ==
  /\ root = "none"
  /\ \E ps \in ProviderStacks, R \in PropertyRecords, shape \in RefShapes :
       /\ providers' = ps
       /\ props' = R
       /\ ref' = SuppliedRef(shape)
       /\ Commit(RenderElement(comp, R, SuppliedRef(shape), ps),
                 Null, NoRef, Null, <<>>, SuppliedRef(shape))
  /\ rerendered' = FALSE
  /\ UNCHANGED <<call, comp>>

\* renderer.update(<Document foo=... bar=.../>): the Providers publish new values
UpdateProviders ==
  /\ root = "mounted"
  /\ \E vs \in [1..Len(providers) -> ProviderValues] :
       LET ps == [i \in 1..Len(providers) |->
                    [Context |-> providers[i].Context, value |-> vs[i]]]
       IN /\ ps # providers
          /\ providers' = ps
          /\ Commit(RenderElement(comp, props, ref, ps),
                    instance, elemRef, refCell, refCalls, ref)
  /\ rerendered' = FALSE
  /\ UNCHANGED <<call, comp, props, ref>>

\* the caller re-renders comp with another property record
UpdateProps ==
  /\ root = "mounted"
  /\ \E R \in PropertyRecords :
       /\ R # props
       /\ props' = R
       /\ Commit(RenderElement(comp, R, ref, providers),
                 instance, elemRef, refCell, refCalls, ref)
  /\ rerendered' = FALSE
  /\ UNCHANGED <<call, comp, providers, ref>>

\* the caller re-renders with the same record and the same published values
Rerender ==
  /\ root = "mounted"
  /\ Commit(RenderElement(comp, props, ref, providers),
            instance, elemRef, refCell, refCalls, ref)
  /\ rerendered' = TRUE
  /\ UNCHANGED <<call, comp, providers, props, ref>>

\* renderer.unmount()
Unmount ==
  /\ root = "mounted"
  /\ root' = "unmounted"
  /\ instance' = Null
  /\ refCell' = IF instance # Null THEN CellAfter(refCell, elemRef, ref, Null) ELSE refCell
  /\ refCalls' = IF instance # Null THEN CallsAfter(refCalls, elemRef, ref, Null) ELSE refCalls
  /\ output' = EmptyOutput
  /\ instProps' = EmptyRecord
  /\ elemRef' = NoRef
  /\ layers' = 0
  /\ providers' = <<>>
  /\ props' = EmptyRecord
  /\ rerendered' = FALSE
  /\ UNCHANGED <<call, comp, ref, created>>

Next == Create \/ UpdateProviders \/ UpdateProps \/ Rerender \/ Unmount

Spec == Init /\ [][Next]_vars

\* ---------------------------------------- guarded injectors and falsy values
\* The guarded injectors under Providers that also publish null, '', 0 and
\* false, the caller giving its own property and a ref object.
PublishedValues == ProviderValues \cup FalsyValues

ValueStacks ==
  UNION {[1..n -> [Context : Contexts, value : PublishedValues]] : n \in 0..MaxProviders}

InitGuarded ==
  /\ Init
  /\ call.fn \in {"InjectSingleGuarded", "InjectGuarded"}

\* TestRenderer.create(<Provider value=...><Component ref={ref} baz="baz"/></Provider>)
CreateValues ==
  /\ root = "none"
  /\ \E ps \in ValueStacks :
       LET R == [k \in {"baz"} |-> "baz"]
       IN /\ providers' = ps
          /\ props' = R
          /\ ref' = SuppliedRef("cell")
          /\ Commit(RenderElement(comp, R, SuppliedRef("cell"), ps),
                    Null, NoRef, Null, <<>>, SuppliedRef("cell"))
  /\ rerendered' = FALSE
  /\ UNCHANGED <<call, comp>>

\* one Provider is re-rendered with another value
PublishValue ==
  /\ root = "mounted"
  /\ \E i \in 1..Len(providers), v \in PublishedValues :
       LET ps == [providers EXCEPT ![i].value = v]
       IN /\ v # providers[i].value
          /\ providers' = ps
          /\ Commit(RenderElement(comp, props, ref, ps),
                    instance, elemRef, refCell, refCalls, ref)
  /\ rerendered' = FALSE
  /\ UNCHANGED <<call, comp, props, ref>>

NextValues == CreateValues \/ PublishValue \/ Unmount

SpecValues == InitGuarded /\ [][NextValues]_vars

TypeOK ==
  /\ call \in Calls
  /\ comp = Build(call)
  /\ root \in {"none", "mounted", "unmounted", "thrown"}
  /\ providers \in ProviderStacks
  /\ props \in PropertyRecords
  /\ instance \in 0..MaxInstances
  /\ created \in 0..MaxInstances
  /\ refCell \in 0..MaxInstances
  /\ rerendered \in BOOLEAN

\* ================================================================ claims
\* the value published on H at the place of the component: that of the
\* innermost Provider of H, the default of H without one
PublishedIn(ps, H) ==
  LET idx == {i \in 1..Len(ps) : ps[i].Context = H}
  IN IF idx = {} THEN DefaultValue[H]
     ELSE ps[CHOOSE i \in idx : \A j \in idx : j <= i].value

Published(H) == PublishedIn(providers, H)

MapKeys(m) == {m[i].key : i \in 1..Len(m)}

\* the record {k: value published on m's context of k} of a map
InjectedRecord(m) ==
  [k \in MapKeys(m) |-> Published(m[CHOOSE i \in 1..Len(m) : m[i].key = k].Context)]

SomeUndefined(m) == \E i \in 1..Len(m) : Published(m[i].Context) = Undefined

IsSingle(c) == c.fn = "InjectSingle" /\ Len(c.map) = 1

\* C1: a mounted InjectSingle(H, p, T) given a record R without p shows what
\* T shows when instantiated directly with {p: V} plus the fields of R, V
\* being the value published on H.
C1_InjectSingleOutput ==
  (root = "mounted" /\ IsSingle(call) /\ call.map[1].key \notin DOMAIN props)
    => LET merged == [k \in (DOMAIN props) \cup {call.map[1].key} |->
                        IF k \in DOMAIN props THEN props[k]
                        ELSE Published(call.map[1].Context)]
       IN /\ output = DirectOutput(merged)
          /\ instProps = merged

C1_Witness ==
  /\ root = "mounted" /\ IsSingle(call)
  /\ call.map[1].key \notin DOMAIN props
  /\ DOMAIN props # {}
  /\ Published(call.map[1].Context) = "foo2"
  /\ output.node = "instance"

\* C2: whatever record is handed to the component returned by InjectSingle or
\* Inject, also one with an entry under an injected name, the wrapped
\* component receives the context's current value under that name.
C2_CannotOverride ==
  (root = "mounted" /\ call.fn \in {"InjectSingle", "Inject"})
    => \A i \in 1..Len(call.map) :
         /\ call.map[i].key \in DOMAIN instProps
         /\ instProps[call.map[i].key] = Published(call.map[i].Context)

\* C3: a mounted InjectSingleGuarded(H, p, T) shows nothing and has no
\* instance of T when the value published on H is undefined, and otherwise
\* shows what InjectSingle(H, p, T) shows for the same record and value.
C3_GuardedSingle ==
  (root = "mounted" /\ call.fn = "InjectSingleGuarded")
    => IF Published(call.map[1].Context) = Undefined
       THEN output = EmptyOutput /\ instance = Null
       ELSE /\ instance # Null
            /\ output = OutputOf(RenderElement(
                   InjectSingle(call.map[1].Context, call.map[1].key, TargetComponent),
                   props, ref, providers))

C3_Witness ==
  /\ root = "mounted" /\ call.fn = "InjectSingleGuarded"
  /\ Published(call.map[1].Context) = Undefined
  /\ created > 0
  /\ output = EmptyOutput

\* C4: a mounted InjectGuarded(map, T), given a record without the mapped
\* names, shows nothing whenever one of the published values is undefined,
\* and shows T with all the values injected next to the caller's properties
\* exactly when all of them are defined.
C4_GuardedMany ==
  (root = "mounted" /\ call.fn = "InjectGuarded" /\ MapKeys(call.map) \cap DOMAIN props = {})
    => /\ SomeUndefined(call.map) => output = EmptyOutput /\ instance = Null
       /\ (output = DirectOutput(objectAssign(InjectedRecord(call.map), props))
             /\ instance # Null)
           <=> ~SomeUndefined(call.map)

C4_Witness ==
  /\ root = "mounted" /\ call.fn = "InjectGuarded" /\ Len(call.map) = 2
  /\ MapKeys(call.map) \cap DOMAIN props = {}
  /\ Published(call.map[1].Context) # Undefined
  /\ Published(call.map[2].Context) = Undefined
  /\ output = EmptyOutput

\* C5: for all contexts Ha and Hb, Inject({foo: Ha, bar: Hb}, T) shows the
\* same as InjectSingle(Ha, "foo", InjectSingle(Hb, "bar", T)) and as
\* InjectSingle(Hb, "bar", InjectSingle(Ha, "foo", T)), in either order of
\* the map's keys; a mounted Inject of two keys shows exactly that.
C5_FoldOrder ==
  root = "mounted" =>
    \A Ha \in Contexts, Hb \in Contexts :
      LET ab == <<[key |-> "foo", Context |-> Ha], [key |-> "bar", Context |-> Hb]>>
          ba == <<[key |-> "bar", Context |-> Hb], [key |-> "foo", Context |-> Ha]>>
          Show(c) == OutputOf(RenderElement(c, props, ref, providers))
          nested == Show(InjectSingle(Ha, "foo", InjectSingle(Hb, "bar", TargetComponent)))
      IN /\ Show(Inject(ab, TargetComponent)) = nested
         /\ Show(Inject(ba, TargetComponent)) = nested
         /\ Show(InjectSingle(Hb, "bar", InjectSingle(Ha, "foo", TargetComponent))) = nested
         /\ (call.fn = "Inject" /\ call.map \in {ab, ba}) => output = nested

C5_Witness ==
  /\ root = "mounted" /\ call.fn = "Inject" /\ Len(call.map) = 2
  /\ call.map[1].key = "foo"
  /\ Len(output.text) = 3
  /\ output.text[1] # output.text[2]

\* C6: a ref object or callback ref supplied to a component returned by
\* InjectSingle or Inject, through any number of layers, is the very ref on
\* the element of the wrapped component; while mounted it resolves to the
\* instance of the wrapped component, and after unmount to null.
C6_RefReachesTarget ==
  (call.fn \in {"InjectSingle", "Inject"} /\ ref.shape \in {"cell", "callback"})
    => /\ root = "mounted" =>
            /\ instance # Null
            /\ elemRef = ref
            /\ ref.shape = "cell" => refCell = instance
            /\ ref.shape = "callback" =>
                 refCalls # <<>> /\ refCalls[Len(refCalls)] = instance
       /\ root = "unmounted" =>
            /\ ref.shape = "cell" => refCell = Null
            /\ ref.shape = "callback" =>
                 refCalls # <<>> /\ refCalls[Len(refCalls)] = Null

C6_Witness ==
  /\ root = "unmounted" /\ call.fn = "Inject" /\ Len(call.map) = 2
  /\ ref.shape = "cell" /\ created = 1 /\ refCell = Null

\* C7: the value InjectSingle(H, p, T) injects is that of the innermost
\* Provider of H above the component, and the default of H when there is no
\* Provider of H (FooContext without Provider injects "foo").
C7_NearestPublisher ==
  (root = "mounted" /\ IsSingle(call) /\ call.map[1].key \notin DOMAIN props)
    => LET H == call.map[1].Context
           p == call.map[1].key
           above == {i \in 1..Len(providers) : providers[i].Context = H}
       IN /\ p \in DOMAIN instProps
          /\ above = {} => instProps[p] = DefaultValue[H]
          /\ \A i \in above :
               (\A j \in above : j <= i) => instProps[p] = providers[i].value
          /\ (above = {} /\ H = "FooContext") => "foo" \in {output.text[i] : i \in 1..Len(output.text)}

C7_Witness ==
  /\ root = "mounted" /\ IsSingle(call) /\ call.map[1].key \notin DOMAIN props
  /\ Len(providers) = 2
  /\ providers[1].Context = call.map[1].Context
  /\ providers[2].Context = call.map[1].Context
  /\ providers[1].value = "foo1" /\ providers[2].value = "foo2"
  /\ instProps[call.map[1].key] = "foo2"

\* what InjectGuarded(m, T) is to show for published values ps and record R
GuardedShown(m, ps, R) ==
  IF \E i \in 1..Len(m) : PublishedIn(ps, m[i].Context) = Undefined
  THEN EmptyOutput
  ELSE DirectOutput(objectAssign(
         [k \in MapKeys(m) |->
            PublishedIn(ps, m[CHOOSE i \in 1..Len(m) : m[i].key = k].Context)], R))

\* C8: after every step (a create, or any update of the published values or
\* of the record) the output of a mounted InjectGuarded(map, T) is determined
\* by the values published now: empty iff one of them is undefined, else T
\* with the current values; what was shown before does not matter.
C8_HistoryIndependent ==
  [][(root' = "mounted" /\ call.fn = "InjectGuarded"
        /\ MapKeys(call.map) \cap DOMAIN props' = {})
      => /\ output' = GuardedShown(call.map, providers', props')
         /\ (output' = EmptyOutput)
              <=> (\E i \in 1..Len(call.map) :
                     PublishedIn(providers', call.map[i].Context) = Undefined)]_vars

\* the component re-appeared with a new value after having been suppressed
C8_Witness ==
  /\ root = "mounted" /\ call.fn = "InjectGuarded" /\ Len(call.map) = 2
  /\ MapKeys(call.map) \cap DOMAIN props = {}
  /\ created = 2 /\ instance = 2
  /\ output.node = "instance"
  /\ "foo2" \in {output.text[i] : i \in 1..Len(output.text)}

C10_EmptyMap ==
  (call.fn \in {"Inject", "InjectGuarded"} /\ call.map = <<>>)
    => /\ comp = TargetComponent
       /\ root = "mounted" =>
            layers = 0 /\ instance # Null /\ instProps = props /\ elemRef = ref

C10_Witness ==
  /\ call.fn = "InjectGuarded" /\ call.map = <<>>
  /\ root = "mounted" /\ instance # Null /\ DOMAIN instProps = {"baz"}

IsGuarded(c) == c.fn \in {"InjectSingleGuarded", "InjectGuarded"}

SomeUndefinedIn(ps, m) == \E i \in 1..Len(m) : PublishedIn(ps, m[i].Context) = Undefined

\* C11: after every step of a mounted guarded injector that was given a ref
\* object or a callback ref, if one of its context values is now undefined
\* then no instance of the wrapped component exists, no element carries the
\* ref and the ref resolves to null; an instance that was mounted before the
\* step has been unmounted by it, the callback ref being told null once.
C11_GuardedRefDetached ==
  [][(IsGuarded(call) /\ root' = "mounted" /\ ref'.shape \in {"cell", "callback"}
        /\ SomeUndefinedIn(providers', call.map))
      => /\ instance' = Null
         /\ elemRef' = NoRef
         /\ ref'.shape = "cell" => refCell' = Null
         /\ ref'.shape = "callback" =>
              /\ refCalls' = IF instance # Null THEN Append(refCalls, Null) ELSE refCalls
              /\ refCalls' # <<>> => refCalls'[Len(refCalls')] = Null]_vars

\* the value became undefined while the wrapped component was mounted
C11_Witness ==
  /\ IsGuarded(call) /\ root = "mounted" /\ ref.shape = "callback"
  /\ SomeUndefined(call.map)
  /\ created = 1 /\ instance = Null
  /\ refCalls = <<1, Null>>

\* C12: with a callback ref supplied (the same function on every render),
\* every step calls it exactly once with the new instance when the wrapped
\* component gets mounted, exactly once with null when it gets unmounted, and
\* not at all when the instance stays (or stays absent); so over the whole run
\* the calls are one per instance created and one per instance removed.
C12_CallbackOncePerTransition ==
  [][(ref'.shape = "callback" /\ root' \in {"mounted", "unmounted"})
      => /\ refCalls' = refCalls \o
              (IF instance = Null /\ instance' # Null THEN <<instance'>>
               ELSE IF instance # Null /\ instance' = Null THEN <<Null>>
               ELSE IF instance # instance' THEN <<Null, instance'>>
               ELSE <<>>)
         /\ Len(refCalls') = 2 * created' - (IF instance' # Null THEN 1 ELSE 0)]_vars

\* mounted, unmounted by the guard, mounted again, unmounted by the renderer
C12_Witness ==
  /\ ref.shape = "callback" /\ root = "unmounted"
  /\ refCalls = <<1, Null, 2, Null>>

\* C13: a re-render of an injected component with the same record and the
\* same published values changes nothing: the output and the record of the
\* wrapped component stay, the same instance stays mounted, none is created
\* or removed, and the ref is neither detached nor attached again.
C13_RerenderIdempotent ==
  [][rerendered'
      => /\ root' = root
         /\ output' = output
         /\ instProps' = instProps
         /\ instance' = instance
         /\ created' = created
         /\ elemRef' = elemRef
         /\ refCell' = refCell
         /\ refCalls' = refCalls
         /\ layers' = layers]_vars

C13_Witness ==
  /\ rerendered /\ root = "mounted"
  /\ Len(comp.wrappers) = 2
  /\ instance = 1 /\ created = 1
  /\ output.node = "instance"

\* C14: for InjectGuarded, whenever one of the published values is undefined,
\* both enumeration orders of a two-key map end the same way, whichever layer
\* finds an undefined value first: nothing is shown, the wrapped component is
\* not instantiated and no element carries the ref; a mounted InjectGuarded
\* is then in that state, its ref resolving to null.
C14_OrderIrrelevant ==
  root = "mounted" =>
    /\ \A Ha \in Contexts, Hb \in Contexts :
         LET ab == <<[key |-> "foo", Context |-> Ha], [key |-> "bar", Context |-> Hb]>>
             ba == <<[key |-> "bar", Context |-> Hb], [key |-> "foo", Context |-> Ha]>>
             rab == RenderElement(InjectGuarded(ab, TargetComponent), props, ref, providers)
             rba == RenderElement(InjectGuarded(ba, TargetComponent), props, ref, providers)
         IN (Published(Ha) = Undefined \/ Published(Hb) = Undefined)
              => /\ rab.node = "null" /\ rba.node = "null"
                 /\ OutputOf(rab) = EmptyOutput /\ OutputOf(rba) = EmptyOutput
                 /\ rab.ref = NoRef /\ rba.ref = NoRef
    /\ (call.fn = "InjectGuarded" /\ SomeUndefined(call.map))
         => /\ output = EmptyOutput
            /\ instance = Null
            /\ elemRef = NoRef
            /\ ref.shape \in {"cell", "object"} => refCell = Null

\* only the innermost layer finds its value undefined
C14_Witness ==
  /\ root = "mounted" /\ call.fn = "InjectGuarded" /\ Len(call.map) = 2
  /\ Published(call.map[1].Context) = Undefined
  /\ Published(call.map[2].Context) # Undefined
  /\ layers = 2
  /\ ref.shape = "cell" /\ refCell = Null /\ instance = Null

\* the entries of a map whose context value is undefined; the loop of
\* InjectGuarded makes the last entry of the map the outermost layer
UndefinedEntries(m) == {i \in 1..Len(m) : Published(m[i].Context) = Undefined}

\* C15: in a mounted guarded injector some of whose context values are
\* undefined, the render pass runs the layers from the outermost one down to
\* the outermost layer with an undefined value and no further: the layers
\* inside it are not rendered and the wrapped component is not instantiated;
\* with all values defined every layer is rendered and the component exists.
C15_StopsAtOutermostUndefined ==
  (root = "mounted" /\ IsGuarded(call))
    => LET m == call.map
           u == UndefinedEntries(m)
       IN IF u = {}
          THEN layers = Len(m) /\ instance # Null
          ELSE LET outermost == CHOOSE i \in u : \A j \in u : j <= i
               IN /\ layers = Len(m) - outermost + 1
                  /\ instance = Null
                  /\ output = EmptyOutput

\* the outer layer has an undefined value, the inner one a defined value
C15_Witness ==
  /\ root = "mounted" /\ call.fn = "InjectGuarded" /\ Len(call.map) = 2
  /\ Published(call.map[2].Context) = Undefined
  /\ Published(call.map[1].Context) # Undefined
  /\ layers = 1 /\ instance = Null

C17_InstanceWhileDefined ==
  [][(IsGuarded(call) /\ root = "mounted" /\ root' = "mounted")
      => IF SomeUndefinedIn(providers', call.map)
         THEN instance' = Null /\ created' = created
         ELSE /\ instance # Null => instance' = instance /\ created' = created
              /\ instance = Null => instance' = created + 1 /\ created' = created + 1
              /\ \A i \in 1..Len(call.map) :
                   call.map[i].key \notin DOMAIN props' =>
                     /\ call.map[i].key \in DOMAIN instProps'
                     /\ instProps'[call.map[i].key]
                          = PublishedIn(providers', call.map[i].Context)]_vars

\* defined -> undefined -> defined, seen through a callback ref: the first
\* instance, its detachment, the second instance
C17_Witness ==
  /\ IsGuarded(call) /\ root = "mounted" /\ call.map # <<>>
  /\ ~SomeUndefined(call.map)
  /\ created = 2 /\ instance = 2
  /\ refCalls = <<1, Null, 2>>

====
